---- MODULE Spec2Model ----
(***************************************************************************)
(* Shape-level model of src/code/networks/uvil.py: the patch operators     *)
(* (PatchMerging, PatchExpand, FinalPatchExpand_X4, VitPatchEmbed,         *)
(* VitPosEmbed2d), the stage wrappers (MyViLBlockEnc, MyViLBlockDec) and   *)
(* the UViL orchestrator (construction and the forward pass).              *)
(*                                                                         *)
(* A tensor is abstracted to its shape (a sequence of naturals); in the    *)
(* forward pass it also carries the name of the step that produced it      *)
(* (val), so that "the same tensor" and "a different tensor" can be told   *)
(* apart.  Every operator returns a result record                          *)
(*     [ok, err, shape]                                                    *)
(* where err names the Python exception the code raises.                   *)
(***************************************************************************)
EXTENDS Integers, Sequences, FiniteSets, TLC

VARIABLES
    args,          \* UViL constructor arguments and the batch size of the input
    self,          \* the constructed UViL module (None before construction)
    pc,            \* position in UViL.__init__ / UViL.forward
    idx,           \* loop index of the encoder / decoder loop
    x,             \* the working tensor
    x_downsample,  \* the skip cache of forward_encoder
    reads,         \* skip-cache indices read by foraward_decoder, in order
    applied,       \* PatchMerging / PatchExpand applications that returned
    normed,        \* result of self.norm_upsample(x) (not assigned to x)
    err,           \* exception that ended the pass ("none" while running)
    call,          \* stand-alone operator call: the operator and its inputs
    ret            \* stand-alone operator call: its result

pipeVars == <<args, self, pc, idx, x, x_downsample, reads, applied, normed, err>>
opVars == <<call, ret>>
vars == <<args, self, pc, idx, x, x_downsample, reads, applied, normed, err, call, ret>>

-----------------------------------------------------------------------------
(* Bounds of the model *)

MaxImg == 16
MaxStages == 3
MaxEmbedDim == 2
MaxBatch == 2
MaxClasses == 2
MaxRes == 4
MaxChan == 4

(* Program constants *)

NoStride == 0
Depth == 2
FinalScale == 4

PatchSizes == {2, 4}
Strides == {NoStride, 2, 3, 4}

-----------------------------------------------------------------------------
(* Results and tensors *)

Ok(shape) == [ok |-> TRUE, err |-> "none", shape |-> shape]

Fail(e) == [ok |-> FALSE, err |-> e, shape |-> <<>>]

Tensor(shape, op, i) == [shape |-> shape, val |-> <<op, i>>]

NoTensor == [shape |-> <<>>, val |-> <<"none", 0>>]

None == [kind |-> "None"]

NoCall == [op |-> "none"]

Last(s) == s[Len(s)]

Front(s) == SubSeq(s, 1, Len(s) - 1)

RECURSIVE Prod(_)
Prod(s) == IF s = <<>> THEN 1 ELSE Head(s) * Prod(Tail(s))

-----------------------------------------------------------------------------
(* torch primitives, on shapes *)

\* nn.Linear(in_features, out_features): the last axis must be in_features.
Linear(in_features, out_features, shape) ==
    IF Len(shape) = 0 \/ Last(shape) # in_features
    THEN Fail("RuntimeError")
    ELSE Ok(Append(Front(shape), out_features))

\* nn.LayerNorm(n): the last axis must be n; the shape is kept.
LayerNorm(n, shape) ==
    IF Len(shape) = 0 \/ Last(shape) # n
    THEN Fail("RuntimeError")
    ELSE Ok(shape)

\* Output length of a convolution without padding along one axis.
ConvOut(R, k, s) == ((R - k) \div s) + 1

\* x + embed: elementwise broadcasting of two shapes of the same rank.
BroadcastAdd(a, b) ==
    IF Len(a) # Len(b) THEN Fail("RuntimeError")
    ELSE IF \E i \in 1..Len(a) : a[i] # b[i] /\ a[i] # 1 /\ b[i] # 1
    THEN Fail("RuntimeError")
    ELSE Ok([i \in 1..Len(a) |-> IF a[i] = 1 THEN b[i] ELSE a[i]])

\* torch.cat((a, b), dim=-1): all axes but the last must agree.
CatLast(a, b) ==
    IF Len(a) # Len(b) \/ Len(a) = 0 THEN Fail("RuntimeError")
    ELSE IF Front(a) # Front(b) THEN Fail("RuntimeError")
    ELSE Ok(Append(Front(a), Last(a) + Last(b)))

-----------------------------------------------------------------------------
(* PatchMerging *)

PatchMerging_init(input_resolution, dim) ==
    [kind |-> "PatchMerging", input_resolution |-> input_resolution, dim |-> dim]

\* Mutant: the evenness assertion checks H only.
PatchMerging_forward_HOnly(m, shape) ==
    LET H == m.input_resolution[1]
        W == m.input_resolution[2]
    IN  IF Len(shape) # 3 THEN Fail("ValueError")
        ELSE IF shape[2] # H * W THEN Fail("AssertionError")
        ELSE IF H % 2 # 0 THEN Fail("AssertionError")
        ELSE IF W % 2 # 0 THEN Fail("RuntimeError")
        ELSE Ok(<<shape[1], (H \div 2) * (W \div 2), 2 * m.dim>>)

\* Mutant: no evenness assertion, odd rows and columns are cropped.
PatchMerging_forward_Crop(m, shape) ==
    LET H == m.input_resolution[1]
        W == m.input_resolution[2]
    IN  IF Len(shape) # 3 THEN Fail("ValueError")
        ELSE IF shape[2] # H * W THEN Fail("AssertionError")
        ELSE Ok(<<shape[1], (H \div 2) * (W \div 2), 2 * m.dim>>)

PatchMerging_forward(m, shape) ==
    LET H == m.input_resolution[1]
        W == m.input_resolution[2]
    IN  IF Len(shape) # 3 THEN Fail("ValueError")
        ELSE LET B == shape[1]
                 L == shape[2]
                 C == shape[3]
             IN  IF L # H * W THEN Fail("AssertionError")
                 ELSE IF ~(H % 2 = 0 /\ W % 2 = 0) THEN Fail("AssertionError")
                 ELSE LET cat == <<B, H \div 2, W \div 2, 4 * C>>
                          flat == <<B, (cat[2] * cat[3] * cat[4]) \div (4 * C), 4 * C>>
                          n == LayerNorm(4 * m.dim, flat)
                      IN  IF ~n.ok THEN n
                          ELSE Linear(4 * m.dim, 2 * m.dim, n.shape)

-----------------------------------------------------------------------------
(* PatchExpand *)

PatchExpand_init(input_resolution, dim, dim_scale) ==
    [kind |-> "PatchExpand", input_resolution |-> input_resolution,
     dim |-> dim, dim_scale |-> dim_scale]

\* 'b h w (p1 p2 c) -> b (h p1) (w p2) c' on a (B, H, W, C) shape.
RearrangeExpand(shape, p1, p2, c) ==
    IF shape[4] # p1 * p2 * c THEN Fail("EinopsError")
    ELSE Ok(<<shape[1], shape[2] * p1, shape[3] * p2, c>>)

\* Mutant: the 2x2 block is laid out along the width only.
PatchExpand_forward_Wide(m, shape) ==
    LET H == m.input_resolution[1]
        W == m.input_resolution[2]
    IN  IF Len(shape) # 3 THEN Fail("ValueError")
        ELSE IF shape[2] # H * W THEN Fail("AssertionError")
        ELSE IF shape[3] # m.dim THEN Fail("RuntimeError")
        ELSE Ok(<<shape[1], H * (2 * W), shape[3]>>)

PatchExpand_forward(m, shape) ==
    LET H == m.input_resolution[1]
        W == m.input_resolution[2]
        e == IF m.dim_scale = 2 THEN Linear(m.dim, 2 * m.dim, shape) ELSE Ok(shape)
    IN  IF ~e.ok THEN e
        ELSE IF Len(e.shape) # 3 THEN Fail("ValueError")
        ELSE LET B == e.shape[1]
                 L == e.shape[2]
                 C == e.shape[3]
             IN  IF L # H * W THEN Fail("AssertionError")
                 ELSE LET r == RearrangeExpand(<<B, H, W, C>>, 2, 2, C \div 4)
                      IN  IF ~r.ok THEN r
                          ELSE LayerNorm(m.dim \div m.dim_scale,
                                         <<B, (r.shape[2] * r.shape[3]), C \div 4>>)

-----------------------------------------------------------------------------
(* FinalPatchExpand_X4 *)

FinalPatchExpand_X4_init(input_resolution, dim, dim_scale) ==
    [kind |-> "FinalPatchExpand_X4", input_resolution |-> input_resolution,
     dim |-> dim, dim_scale |-> dim_scale, output_dim |-> dim]

FinalPatchExpand_X4_forward(m, shape) ==
    LET H == m.input_resolution[1]
        W == m.input_resolution[2]
        e == Linear(m.dim, 16 * m.dim, shape)
    IN  IF ~e.ok THEN e
        ELSE IF Len(e.shape) # 3 THEN Fail("ValueError")
        ELSE LET B == e.shape[1]
                 L == e.shape[2]
                 C == e.shape[3]
                 c == C \div (m.dim_scale * m.dim_scale)
             IN  IF L # H * W THEN Fail("AssertionError")
                 ELSE LET r == RearrangeExpand(<<B, H, W, C>>, m.dim_scale, m.dim_scale, c)
                      IN  IF ~r.ok THEN r
                          ELSE IF (r.shape[2] * r.shape[3] * c) % m.output_dim # 0
                          THEN Fail("RuntimeError")
                          ELSE LayerNorm(m.output_dim,
                                  <<B, (r.shape[2] * r.shape[3] * c) \div m.output_dim,
                                    m.output_dim>>)

-----------------------------------------------------------------------------
(* VitPatchEmbed (2-D resolutions) *)

\* to_ntuple(ndim)(v) for an integer v.
ToNtuple(n, v) == [i \in 1..n |-> v]

\* Mutant: off by one, the patch boundaries are counted instead of the patches.
VitPatchEmbed_seqlens_OffByOne(resolution, patch_size) ==
    [i \in 1..Len(resolution) |-> resolution[i] \div patch_size[i] + 1]

VitPatchEmbed_seqlens(resolution, patch_size) ==
    [i \in 1..Len(resolution) |-> resolution[i] \div patch_size[i]]

VitPatchEmbed_init(dim, num_channels, resolution, patch_size, stride) ==
    LET ndim == Len(resolution)
        ps == ToNtuple(ndim, patch_size)
        st == IF stride = NoStride THEN ps ELSE ToNtuple(ndim, stride)
    IN  IF \E i \in 1..ndim : resolution[i] % ps[i] # 0
        THEN [ok |-> FALSE, err |-> "AssertionError", module |-> None]
        ELSE LET seqlens == VitPatchEmbed_seqlens(resolution, ps)
                 num_patches ==
                     IF ps = st THEN Prod(seqlens)
                     ELSE Prod([i \in 1..ndim |-> ConvOut(resolution[i], ps[i], st[i])])
             IN  [ok |-> TRUE, err |-> "none",
                  module |-> [kind |-> "VitPatchEmbed", resolution |-> resolution,
                              ndim |-> ndim, patch_size |-> ps, stride |-> st,
                              seqlens |-> seqlens, num_patches |-> num_patches,
                              num_channels |-> num_channels, dim |-> dim]]

\* forward on a (B, C, H, W) shape: strided convolution, then channels last.
VitPatchEmbed_forward(m, shape) ==
    IF Len(shape) # m.ndim + 2 THEN Fail("RuntimeError")
    ELSE IF \E i \in 1..m.ndim : shape[i + 2] % m.patch_size[i] # 0
    THEN Fail("AssertionError")
    ELSE IF shape[2] # m.num_channels THEN Fail("RuntimeError")
    ELSE Ok(<<shape[1]>>
            \o [i \in 1..m.ndim |-> ConvOut(shape[i + 2], m.patch_size[i], m.stride[i])]
            \o <<m.dim>>)

-----------------------------------------------------------------------------
(* VitPosEmbed2d *)

VitPosEmbed2d_init(seqlens, dim, allow_interpolation) ==
    [kind |-> "VitPosEmbed2d", seqlens |-> seqlens, dim |-> dim,
     allow_interpolation |-> allow_interpolation,
     embed |-> [shape |-> <<1>> \o seqlens \o <<dim>>, src |-> "stored"]]

\* vision_lstm_util.interpolate_sincos: the embedding resized to the grid seqlens.
interpolate_sincos(embed, seqlens) ==
    [shape |-> <<1>> \o seqlens \o <<Last(embed.shape)>>, src |-> "interpolated"]

\* Mutant: a differing grid is added without resizing the embedding.
VitPosEmbed2d_forward_NoResize(m, shape) ==
    LET r == BroadcastAdd(shape, m.embed.shape)
    IN  IF Len(shape) # Len(m.seqlens) + 2
        THEN [ok |-> FALSE, err |-> "AssertionError", shape |-> <<>>, embed |-> None]
        ELSE [ok |-> r.ok, err |-> r.err, shape |-> r.shape,
              embed |-> IF r.ok THEN m.embed ELSE None]

VitPosEmbed2d_forward(m, shape) ==
    IF Len(shape) # Len(m.seqlens) + 2
    THEN [ok |-> FALSE, err |-> "AssertionError", shape |-> <<>>, embed |-> None]
    ELSE IF Tail(shape) # Tail(m.embed.shape) /\ ~m.allow_interpolation
    THEN [ok |-> FALSE, err |-> "AssertionError", shape |-> <<>>, embed |-> None]
    ELSE LET embed == IF Tail(shape) # Tail(m.embed.shape)
                      THEN interpolate_sincos(m.embed, SubSeq(shape, 2, Len(shape) - 1))
                      ELSE m.embed
             r == BroadcastAdd(shape, embed.shape)
         IN  [ok |-> r.ok, err |-> r.err, shape |-> r.shape,
              embed |-> IF r.ok THEN embed ELSE None]

-----------------------------------------------------------------------------
(* Stage wrappers *)

\* vision_lstm.ViLBlockPair: an opaque block that keeps the tensor's shape.
ViLBlockPair(shape) == Ok(shape)

\* for blk in self.vilblock: x = blk(x)
RECURSIVE ViLBlocks(_, _)
ViLBlocks(depth, shape) ==
    IF depth = 0 THEN Ok(shape)
    ELSE LET r == ViLBlockPair(shape)
         IN  IF ~r.ok THEN r ELSE ViLBlocks(depth - 1, r.shape)

MyViLBlockEnc_init(embed_dim, seqlens, depth, downsample) ==
    [kind |-> "MyViLBlockEnc", embed_dim |-> embed_dim, seqlens |-> seqlens,
     depth |-> depth,
     downsample |-> IF downsample THEN PatchMerging_init(seqlens, embed_dim) ELSE None]

MyViLBlockEnc_forward(m, shape) ==
    LET r == ViLBlocks(m.depth, shape)
    IN  IF ~r.ok THEN r
        ELSE IF m.downsample.kind # "None" THEN PatchMerging_forward(m.downsample, r.shape)
        ELSE r

MyViLBlockDec_init(embed_dim, seqlens, depth, upsample) ==
    [kind |-> "MyViLBlockDec", embed_dim |-> embed_dim, seqlens |-> seqlens,
     depth |-> depth,
     upsample |-> IF upsample THEN PatchExpand_init(seqlens, embed_dim, 2) ELSE None]

MyViLBlockDec_forward(m, shape) ==
    LET r == ViLBlocks(m.depth, shape)
    IN  IF ~r.ok THEN r
        ELSE IF m.upsample.kind # "None" THEN PatchExpand_forward(m.upsample, r.shape)
        ELSE r

-----------------------------------------------------------------------------
(* UViL.__init__ *)

\* enc_layers[idx_stage], idx_stage counted from 0; cpr is patch_embed.seqlens.
UViL_enc_layer(embed_dim, num_stages, depth, cpr, idx_stage) ==
    MyViLBlockEnc_init(embed_dim * 2^idx_stage,
                       <<cpr[1] \div 2^idx_stage, cpr[2] \div 2^idx_stage>>,
                       depth,
                       idx_stage < num_stages - 1)

\* Mutant: the fusion layer is sized by idx_stage instead of its mirror.
UViL_concat_back_dim_Unmirrored(embed_dim, num_stages, idx_stage) ==
    IF idx_stage > 0
    THEN [kind |-> "Linear",
          in_features |-> 2 * (embed_dim * 2^idx_stage),
          out_features |-> embed_dim * 2^idx_stage]
    ELSE [kind |-> "Identity", in_features |-> 0, out_features |-> 0]

\* concat_back_dim[idx_stage]
UViL_concat_back_dim(embed_dim, num_stages, idx_stage) ==
    IF idx_stage > 0
    THEN [kind |-> "Linear",
          in_features |-> 2 * (embed_dim * 2^(num_stages - 1 - idx_stage)),
          out_features |-> embed_dim * 2^(num_stages - 1 - idx_stage)]
    ELSE [kind |-> "Identity", in_features |-> 0, out_features |-> 0]

\* dec_layers[idx_stage]
UViL_dec_layer(embed_dim, num_stages, depth, cpr, idx_stage) ==
    IF idx_stage = 0
    THEN PatchExpand_init(<<cpr[1] \div 2^(num_stages - 1 - idx_stage),
                            cpr[2] \div 2^(num_stages - 1 - idx_stage)>>,
                          embed_dim * 2^(num_stages - 1 - idx_stage), 2)
    ELSE MyViLBlockDec_init(embed_dim * 2^(num_stages - 1 - idx_stage),
                            <<cpr[1] \div 2^(num_stages - 1 - idx_stage),
                              cpr[2] \div 2^(num_stages - 1 - idx_stage)>>,
                            depth,
                            idx_stage < num_stages - 1)

\* final_patch_expnad: both sides of its resolution come from img_size.
UViL_final_patch_expand(img_size, patch_size, embed_dim) ==
    FinalPatchExpand_X4_init(<<img_size \div patch_size, img_size \div patch_size>>,
                             embed_dim, FinalScale)

UViL_init(a) ==
    LET img_size == Last(a.input_shape)
        in_chans == Head(a.input_shape)
        pe == VitPatchEmbed_init(a.embed_dim, in_chans, Tail(a.input_shape),
                                 a.patch_size, a.stride)
    IN  IF ~pe.ok THEN [ok |-> FALSE, err |-> pe.err, module |-> None]
        ELSE LET cpr == pe.module.seqlens
                 N == a.num_stages
             IN  [ok |-> TRUE, err |-> "none",
                  module |->
                    [kind |-> "UViL",
                     input_shape |-> a.input_shape,
                     img_size |-> img_size,
                     in_chans |-> in_chans,
                     num_classes |-> a.num_classes,
                     patch_size |-> a.patch_size,
                     embed_dim |-> a.embed_dim,
                     num_stages |-> N,
                     patch_embed |-> pe.module,
                     pos_embed |-> VitPosEmbed2d_init(cpr, a.embed_dim, TRUE),
                     enc_layers |-> [i \in 1..N |->
                         UViL_enc_layer(a.embed_dim, N, a.depth, cpr, i - 1)],
                     dec_layers |-> [i \in 1..N |->
                         UViL_dec_layer(a.embed_dim, N, a.depth, cpr, i - 1)],
                     concat_back_dim |-> [i \in 1..N |->
                         UViL_concat_back_dim(a.embed_dim, N, i - 1)],
                     norm_upsample |-> a.embed_dim,
                     final_patch_expnad |->
                         UViL_final_patch_expand(img_size, a.patch_size, a.embed_dim),
                     final_conv |-> [in_channels |-> a.embed_dim,
                                     out_channels |-> a.num_classes]]]

-----------------------------------------------------------------------------
(* Pieces of UViL.forward *)

\* einops.rearrange(x, "b ... d -> b (...) d")
Flatten(shape) ==
    <<Head(shape), Prod(SubSeq(shape, 2, Len(shape) - 1)), Last(shape)>>

\* Mutant: the skip cache is read in encoder order.
SkipIndex_Forward(len, i) == i - 1

\* x_downsample[len(x_downsample)-1-idx], as a 0-based index.
SkipIndex(len, i) == len - 1 - i

\* Mutant: the normalised tensor replaces the decoder output.
AfterNormUpsample_Assigned(xin, n) == n

\* self.norm_upsample(x); return x
AfterNormUpsample(xin, n) == xin

\* dec_layer(x) for either kind of decoder layer.
DecLayer_forward(m, shape) ==
    IF m.kind = "PatchExpand" THEN PatchExpand_forward(m, shape)
    ELSE MyViLBlockDec_forward(m, shape)

\* nn.Conv2d(in_channels, out_channels, kernel_size=1) on a (B, C, H, W) shape.
Conv1x1(m, shape) ==
    IF Len(shape) # 4 \/ shape[2] # m.in_channels THEN Fail("RuntimeError")
    ELSE Ok(<<shape[1], m.out_channels, shape[3], shape[4]>>)

final_4x_upsample(m, shape) ==
    LET H == m.patch_embed.seqlens[1]
        W == m.patch_embed.seqlens[2]
    IN  IF Len(shape) # 3 THEN Fail("ValueError")
        ELSE IF shape[2] # H * W THEN Fail("AssertionError")
        ELSE LET r == FinalPatchExpand_X4_forward(m.final_patch_expnad, shape)
             IN  IF ~r.ok THEN r
                 ELSE LET numel == Prod(r.shape)
                          rest == shape[1] * (4 * H) * (4 * W)
                      IN  IF numel % rest # 0 THEN Fail("RuntimeError")
                          ELSE Conv1x1(m.final_conv,
                                       <<shape[1], numel \div rest, 4 * H, 4 * W>>)

-----------------------------------------------------------------------------
(* The forward pass of one UViL, step by step *)

ImgSizes == 2..MaxImg

ArgSet ==
    [input_shape : {<<1, h, w>> : h \in ImgSizes, w \in ImgSizes},
     num_classes : 1..MaxClasses,
     patch_size : PatchSizes,
     embed_dim : 1..MaxEmbedDim,
     num_stages : 1..MaxStages,
     stride : Strides,
     depth : {Depth},
     B : 1..MaxBatch]

InitPipe ==
    /\ self = None
    /\ pc = "new"
    /\ idx = 0
    /\ x = NoTensor
    /\ x_downsample = <<>>
    /\ reads = <<>>
    /\ applied = <<>>
    /\ normed = NoTensor
    /\ err = "none"

Init ==
    /\ args \in ArgSet
    /\ InitPipe
    /\ call = NoCall
    /\ ret = None

Raise(e) ==
    /\ pc' = "failed"
    /\ err' = e

\* model = UViL(...); x = the input batch of shape (B,) + input_shape
Construct ==
    /\ pc = "new"
    /\ LET r == UViL_init(args)
       IN  IF r.ok
           THEN /\ self' = r.module
                /\ x' = Tensor(<<args.B>> \o args.input_shape, "input", 0)
                /\ pc' = "forward"
                /\ UNCHANGED err
           ELSE /\ Raise(r.err)
                /\ UNCHANGED <<self, x>>
    /\ UNCHANGED <<args, idx, x_downsample, reads, applied, normed, call, ret>>

\* forward_encoder: x = self.patch_embed(x)
PatchEmbed ==
    /\ pc = "forward"
    /\ LET r == VitPatchEmbed_forward(self.patch_embed, x.shape)
       IN  IF r.ok
           THEN /\ x' = Tensor(r.shape, "patch_embed", 0)
                /\ pc' = "embedded"
                /\ UNCHANGED err
           ELSE /\ Raise(r.err)
                /\ UNCHANGED x
    /\ UNCHANGED <<args, self, idx, x_downsample, reads, applied, normed, call, ret>>

\* forward_encoder: x = self.pos_embed(x)
PosEmbed ==
    /\ pc = "embedded"
    /\ LET r == VitPosEmbed2d_forward(self.pos_embed, x.shape)
       IN  IF r.ok
           THEN /\ x' = Tensor(r.shape, "pos_embed", 0)
                /\ pc' = "pos_embedded"
                /\ UNCHANGED err
           ELSE /\ Raise(r.err)
                /\ UNCHANGED x
    /\ UNCHANGED <<args, self, idx, x_downsample, reads, applied, normed, call, ret>>

\* forward_encoder: flatten to 1d; x_downsample = []
FlattenStep ==
    /\ pc = "pos_embedded"
    /\ x' = Tensor(Flatten(x.shape), "flatten", 0)
    /\ x_downsample' = <<>>
    /\ idx' = 0
    /\ pc' = "enc_loop"
    /\ UNCHANGED <<args, self, reads, applied, normed, err, call, ret>>

\* forward_encoder loop: x_downsample.append(x)
EncRecord ==
    /\ pc = "enc_loop"
    /\ idx < Len(self.enc_layers)
    /\ x_downsample' = Append(x_downsample, x)
    /\ pc' = "enc_block"
    /\ UNCHANGED <<args, self, idx, x, reads, applied, normed, err, call, ret>>

\* forward_encoder loop: x = block(x)
EncStage ==
    /\ pc = "enc_block"
    /\ LET block == self.enc_layers[idx + 1]
           r == MyViLBlockEnc_forward(block, x.shape)
       IN  IF r.ok
           THEN /\ x' = Tensor(r.shape, "enc_layer", idx)
                /\ applied' = IF block.downsample.kind # "None"
                              THEN Append(applied,
                                          [op |-> "PatchMerging", phase |-> "enc",
                                           stage |-> idx,
                                           res |-> block.downsample.input_resolution])
                              ELSE applied
                /\ idx' = idx + 1
                /\ pc' = "enc_loop"
                /\ UNCHANGED err
           ELSE /\ Raise(r.err)
                /\ UNCHANGED <<x, applied, idx>>
    /\ UNCHANGED <<args, self, x_downsample, reads, normed, call, ret>>

\* forward_encoder: return x, x_downsample; foraward_decoder starts
EncReturn ==
    /\ pc = "enc_loop"
    /\ idx = Len(self.enc_layers)
    /\ idx' = 0
    /\ pc' = "dec_loop"
    /\ UNCHANGED <<args, self, x, x_downsample, reads, applied, normed, err, call, ret>>

\* foraward_decoder, idx == 0: x = dec_layer(x)
DecFirst ==
    /\ pc = "dec_loop"
    /\ idx < Len(self.dec_layers)
    /\ idx = 0
    /\ LET dec_layer == self.dec_layers[idx + 1]
           r == DecLayer_forward(dec_layer, x.shape)
       IN  IF r.ok
           THEN /\ x' = Tensor(r.shape, "dec_layer", idx)
                /\ applied' = Append(applied,
                                     [op |-> "PatchExpand", phase |-> "dec",
                                      stage |-> idx,
                                      res |-> dec_layer.input_resolution])
                /\ idx' = idx + 1
                /\ UNCHANGED <<pc, err>>
           ELSE /\ Raise(r.err)
                /\ UNCHANGED <<x, applied, idx>>
    /\ UNCHANGED <<args, self, x_downsample, reads, normed, call, ret>>

\* foraward_decoder, idx > 0: x = torch.cat((x, x_downsample[len-1-idx]), dim=-1)
DecConcat ==
    /\ pc = "dec_loop"
    /\ idx < Len(self.dec_layers)
    /\ idx > 0
    /\ LET k == SkipIndex(Len(x_downsample), idx)
       IN  IF k + 1 \in 1..Len(x_downsample)
           THEN LET r == CatLast(x.shape, x_downsample[k + 1].shape)
                IN  /\ reads' = Append(reads, k)
                    /\ IF r.ok
                       THEN /\ x' = Tensor(r.shape, "cat", idx)
                            /\ pc' = "dec_fuse"
                            /\ UNCHANGED err
                       ELSE /\ Raise(r.err)
                            /\ UNCHANGED x
           ELSE /\ Raise("IndexError")
                /\ UNCHANGED <<x, reads>>
    /\ UNCHANGED <<args, self, idx, x_downsample, applied, normed, call, ret>>

\* foraward_decoder, idx > 0: x = self.concat_back_dim[idx](x)
DecFuse ==
    /\ pc = "dec_fuse"
    /\ LET lin == self.concat_back_dim[idx + 1]
           r == IF lin.kind = "Linear"
                THEN Linear(lin.in_features, lin.out_features, x.shape)
                ELSE Ok(x.shape)
       IN  IF r.ok
           THEN /\ x' = Tensor(r.shape, "concat_back_dim", idx)
                /\ pc' = "dec_layer"
                /\ UNCHANGED err
           ELSE /\ Raise(r.err)
                /\ UNCHANGED x
    /\ UNCHANGED <<args, self, idx, x_downsample, reads, applied, normed, call, ret>>

\* foraward_decoder, idx > 0: x = dec_layer(x)
DecStage ==
    /\ pc = "dec_layer"
    /\ LET dec_layer == self.dec_layers[idx + 1]
           r == DecLayer_forward(dec_layer, x.shape)
       IN  IF r.ok
           THEN /\ x' = Tensor(r.shape, "dec_layer", idx)
                /\ applied' = IF dec_layer.upsample.kind # "None"
                              THEN Append(applied,
                                          [op |-> "PatchExpand", phase |-> "dec",
                                           stage |-> idx,
                                           res |-> dec_layer.upsample.input_resolution])
                              ELSE applied
                /\ idx' = idx + 1
                /\ pc' = "dec_loop"
                /\ UNCHANGED err
           ELSE /\ Raise(r.err)
                /\ UNCHANGED <<x, applied, idx>>
    /\ UNCHANGED <<args, self, x_downsample, reads, normed, call, ret>>

\* foraward_decoder: self.norm_upsample(x); return x
DecReturn ==
    /\ pc = "dec_loop"
    /\ idx = Len(self.dec_layers)
    /\ LET r == LayerNorm(self.norm_upsample, x.shape)
       IN  IF r.ok
           THEN LET n == Tensor(r.shape, "norm_upsample", 0)
                IN  /\ normed' = n
                    /\ x' = AfterNormUpsample(x, n)
                    /\ pc' = "decoded"
                    /\ UNCHANGED err
           ELSE /\ Raise(r.err)
                /\ UNCHANGED <<x, normed>>
    /\ UNCHANGED <<args, self, idx, x_downsample, reads, applied, call, ret>>

\* forward: x = self.final_4x_upsample(x); return x
FinalUpsample ==
    /\ pc = "decoded"
    /\ LET r == final_4x_upsample(self, x.shape)
       IN  IF r.ok
           THEN /\ x' = Tensor(r.shape, "final_conv", 0)
                /\ pc' = "done"
                /\ UNCHANGED err
           ELSE /\ Raise(r.err)
                /\ UNCHANGED x
    /\ UNCHANGED <<args, self, idx, x_downsample, reads, applied, normed, call, ret>>

Next ==
    \/ Construct
    \/ PatchEmbed
    \/ PosEmbed
    \/ FlattenStep
    \/ EncRecord
    \/ EncStage
    \/ EncReturn
    \/ DecFirst
    \/ DecConcat
    \/ DecFuse
    \/ DecStage
    \/ DecReturn
    \/ FinalUpsample

Spec == Init /\ [][Next]_vars

-----------------------------------------------------------------------------
(* Stand-alone calls of the patch operators, inputs drawn from bounded sets *)

InitOps ==
    /\ args = None
    /\ InitPipe
    /\ call = NoCall
    /\ ret = None

\* PatchMerging(input_resolution=(H, W), dim=C).forward on a (B, L, C) tensor
CallPatchMerging ==
    /\ call = NoCall
    /\ \E H \in 1..MaxRes, W \in 1..MaxRes, L \in 1..(MaxRes * MaxRes),
          C \in 1..MaxChan, B \in 1..MaxBatch :
          /\ call' = [op |-> "PatchMerging", H |-> H, W |-> W, B |-> B, L |-> L, C |-> C]
          /\ ret' = PatchMerging_forward(PatchMerging_init(<<H, W>>, C), <<B, L, C>>)
    /\ UNCHANGED pipeVars

\* PatchExpand(input_resolution=(H, W), dim=C, dim_scale).forward on a (B, L, C) tensor
CallPatchExpand ==
    /\ call = NoCall
    /\ \E H \in 1..MaxRes, W \in 1..MaxRes, L \in 1..(MaxRes * MaxRes),
          C \in 1..MaxChan, B \in 1..MaxBatch, ds \in {2, 4} :
          /\ call' = [op |-> "PatchExpand", H |-> H, W |-> W, B |-> B, L |-> L, C |-> C,
                      dim_scale |-> ds]
          /\ ret' = PatchExpand_forward(PatchExpand_init(<<H, W>>, C, ds), <<B, L, C>>)
    /\ UNCHANGED pipeVars

\* PatchMerging((H, W), C) on a (B, H*W, C) tensor, then PatchExpand((H/2, W/2), 2C, 2)
CallMergeThenExpand ==
    /\ call = NoCall
    /\ \E H \in 1..MaxRes, W \in 1..MaxRes, C \in 1..MaxChan, B \in 1..MaxBatch :
          LET m == PatchMerging_forward(PatchMerging_init(<<H, W>>, C), <<B, H * W, C>>)
          IN  /\ call' = [op |-> "MergeThenExpand", H |-> H, W |-> W, B |-> B, C |-> C,
                          merged |-> m]
              /\ ret' = IF m.ok
                        THEN PatchExpand_forward(
                                 PatchExpand_init(<<H \div 2, W \div 2>>, 2 * C, 2), m.shape)
                        ELSE m
    /\ UNCHANGED pipeVars

\* VitPatchEmbed(dim, num_channels, resolution=(H, W), patch_size=p, stride)
ConstructVitPatchEmbed ==
    /\ call = NoCall
    /\ \E H \in 1..MaxImg, W \in 1..MaxImg, p \in 1..MaxRes, st \in Strides,
          d \in 1..MaxEmbedDim :
          /\ call' = [op |-> "VitPatchEmbed", H |-> H, W |-> W, p |-> p, stride |-> st,
                      dim |-> d]
          /\ ret' = VitPatchEmbed_init(d, 1, <<H, W>>, p, st)
    /\ UNCHANGED pipeVars

\* VitPosEmbed2d(seqlens=(s1, s2), dim, allow_interpolation).forward on (B, h, w, dim)
CallVitPosEmbed2d ==
    /\ call = NoCall
    /\ \E s1 \in 1..MaxRes, s2 \in 1..MaxRes, h \in 1..MaxRes, w \in 1..MaxRes,
          d \in 1..MaxEmbedDim, B \in 1..MaxBatch, allow \in BOOLEAN :
          LET m == VitPosEmbed2d_init(<<s1, s2>>, d, allow)
          IN  /\ call' = [op |-> "VitPosEmbed2d", module |-> m, xshape |-> <<B, h, w, d>>]
              /\ ret' = VitPosEmbed2d_forward(m, <<B, h, w, d>>)
    /\ UNCHANGED pipeVars

NextOps ==
    \/ CallPatchMerging
    \/ CallPatchExpand
    \/ CallMergeThenExpand
    \/ ConstructVitPatchEmbed
    \/ CallVitPosEmbed2d

SpecOps == InitOps /\ [][NextOps]_vars

-----------------------------------------------------------------------------
(* Properties of the stand-alone operators (checked under SpecOps) *)

Even(n) == n % 2 = 0

\* C3: PatchMerging.forward on a (B, L, C) input with resolution (H, W) fails by
\* assertion exactly when L # H*W or H is odd or W is odd; otherwise it returns
\* a tensor of shape (B, (H/2)*(W/2), 2C).
C3_PatchMergingContract ==
    call.op = "PatchMerging" =>
        LET bad == call.L # call.H * call.W \/ ~Even(call.H) \/ ~Even(call.W)
        IN  /\ (ret.err = "AssertionError") <=> bad
            /\ ~bad => /\ ret.ok
                       /\ ret.shape = <<call.B, (call.H \div 2) * (call.W \div 2), 2 * call.C>>

\* C3 witness: a merge of a non-square even grid returned.
C3_Witness ==
    /\ call.op = "PatchMerging"
    /\ call.H = 4 /\ call.W = 2 /\ call.L = 8 /\ call.C = 3
    /\ ret.ok
    /\ ret.shape = <<call.B, 2, 6>>

\* C4: PatchExpand with scale 2 maps (B, h*w, c) to (B, (2h)*(2w), c/2) for even c,
\* and so PatchMerging((H, W), C) followed by PatchExpand((H/2, W/2), 2C, 2) returns
\* the original shape (B, H*W, C) for all even H, W and every C.
C4_ExpandInvertsMerging ==
    /\ (call.op = "MergeThenExpand" /\ Even(call.H) /\ Even(call.W)) =>
           /\ call.merged.ok
           /\ ret.ok
           /\ ret.shape = <<call.B, call.H * call.W, call.C>>
    /\ (call.op = "PatchExpand" /\ call.dim_scale = 2 /\ call.L = call.H * call.W
            /\ Even(call.C)) =>
           /\ ret.ok
           /\ ret.shape = <<call.B, (2 * call.H) * (2 * call.W), call.C \div 2>>

\* C4 witness: merging then expanding a 4 x 2 grid with an odd channel count returned.
C4_Witness ==
    /\ call.op = "MergeThenExpand"
    /\ call.H = 4 /\ call.W = 2 /\ call.C = 3
    /\ call.merged.shape = <<call.B, 2, 6>>
    /\ ret.ok
    /\ ret.shape = <<call.B, 8, 3>>

\* C5: VitPatchEmbed constructed without a stride with patch size p on (H, W) has
\* num_patches = (H/p)*(W/p) and seqlens = (H/p, W/p); if p does not divide H or W
\* the construction fails by assertion and no module is produced.
C5_PatchEmbedConstruction ==
    (call.op = "VitPatchEmbed" /\ call.stride = NoStride) =>
        IF call.H % call.p = 0 /\ call.W % call.p = 0
        THEN /\ ret.ok
             /\ ret.module.num_patches = (call.H \div call.p) * (call.W \div call.p)
             /\ ret.module.seqlens = <<call.H \div call.p, call.W \div call.p>>
        ELSE /\ ~ret.ok
             /\ ret.err = "AssertionError"
             /\ ret.module = None

\* C5 witness: a non-overlapping embedding of a 12 x 8 image with 4 x 4 patches.
C5_Witness ==
    /\ call.op = "VitPatchEmbed" /\ call.stride = NoStride
    /\ call.H = 12 /\ call.W = 8 /\ call.p = 4
    /\ ret.ok
    /\ ret.module.num_patches = 6

\* C6: VitPosEmbed2d.forward adds the stored embedding unchanged when the input's
\* shape after the batch axis equals the embedding's; when it differs and
\* interpolation is allowed the call succeeds and the result has the input's
\* spatial shape; when it differs and interpolation is disabled the call fails
\* by assertion and returns nothing.
C6_PosEmbedInterpolation ==
    call.op = "VitPosEmbed2d" =>
        LET m == call.module
            same == Tail(call.xshape) = Tail(m.embed.shape)
        IN  /\ same => /\ ret.ok
                       /\ ret.embed = m.embed
                       /\ ret.embed.src = "stored"
                       /\ ret.shape = call.xshape
            /\ (~same /\ m.allow_interpolation) =>
                       /\ ret.ok
                       /\ SubSeq(ret.shape, 2, 3) = SubSeq(call.xshape, 2, 3)
                       /\ ret.shape = call.xshape
            /\ (~same /\ ~m.allow_interpolation) =>
                       /\ ~ret.ok
                       /\ ret.err = "AssertionError"
                       /\ ret.shape = <<>>

\* C6 witness: a 1 x 3 input grid on a 4 x 2 reference grid was interpolated.
C6_Witness ==
    /\ call.op = "VitPosEmbed2d"
    /\ call.module.seqlens = <<4, 2>>
    /\ SubSeq(call.xshape, 2, 3) = <<1, 3>>
    /\ call.module.allow_interpolation
    /\ ret.ok
    /\ ret.embed.src = "interpolated"
    /\ SubSeq(ret.shape, 2, 3) = <<1, 3>>

-----------------------------------------------------------------------------
(* Properties of the UViL forward pass (checked under Spec) *)

ImgH == args.input_shape[2]

ImgW == args.input_shape[3]

InDecoder == pc \in {"dec_loop", "dec_fuse", "dec_layer", "decoded", "done"}

\* C1 (as claimed): with patch_size 4, the default stride, N >= 2 stages and an
\* input_shape (C, H, W) whose patch grid sides H/4 and W/4 are divisible by
\* 2^(N-1), H and W not necessarily equal, forward does not fail and returns a
\* tensor of shape (B, num_classes, H, W).
C1_ForwardShape ==
    (/\ args.patch_size = 4
     /\ args.stride = NoStride
     /\ args.num_stages >= 2
     /\ ImgH % 4 = 0 /\ ImgW % 4 = 0
     /\ (ImgH \div 4) % 2^(args.num_stages - 1) = 0
     /\ (ImgW \div 4) % 2^(args.num_stages - 1) = 0)
    => /\ pc # "failed"
       /\ pc = "done" => x.shape = <<args.B, args.num_classes, ImgH, ImgW>>

\* C2: the skip cache returned by forward_encoder has num_stages entries, and at
\* every decoder stage i in 1..N-1 the working tensor and skip entry N-1-i have
\* the same sequence length and channel width, the width of their concatenation
\* is the in_features of concat_back_dim[i], whose out_features is the embed_dim
\* of decoder stage i, and the sequence length is the area of that stage's seqlens.
C2_SkipShapesMatch ==
    (InDecoder /\ args.num_stages >= 2) =>
        /\ Len(x_downsample) = args.num_stages
        /\ (pc = "dec_loop" /\ idx \in 1..(args.num_stages - 1)) =>
               LET skip == x_downsample[(args.num_stages - 1 - idx) + 1]
                   lin == self.concat_back_dim[idx + 1]
                   dec == self.dec_layers[idx + 1]
               IN  /\ Len(x.shape) = 3 /\ Len(skip.shape) = 3
                   /\ x.shape[2] = skip.shape[2]
                   /\ x.shape[3] = skip.shape[3]
                   /\ lin.kind = "Linear"
                   /\ lin.in_features = x.shape[3] + skip.shape[3]
                   /\ lin.out_features = dec.embed_dim
                   /\ x.shape[2] = dec.seqlens[1] * dec.seqlens[2]

\* C2 witness: the last decoder stage of a three-stage model on a non-square grid.
C2_Witness ==
    /\ pc = "dec_loop" /\ idx = 2
    /\ args.num_stages = 3
    /\ ImgH # ImgW
    /\ Len(x_downsample) = 3
    /\ x.shape[2] = x_downsample[1].shape[2]

EvenRes(res) == Even(res[1]) /\ Even(res[2])

\* C7 (as claimed): in a completed forward pass every PatchMerging and every
\* PatchExpand was applied at a resolution (H, W) with H and W even.
C7_AllResolutionsEven ==
    pc = "done" => \A i \in 1..Len(applied) : EvenRes(applied[i].res)

\* C7 (amended): every PatchMerging, and every PatchExpand of a decoder stage
\* i >= 1, is applied at an even resolution; the PatchExpand of decoder stage 0
\* works at the bottleneck resolution, which may be odd.
C7_EvenExceptBottleneckExpand ==
    \A i \in 1..Len(applied) :
        (applied[i].op = "PatchMerging" \/ applied[i].stage >= 1) => EvenRes(applied[i].res)

\* C7 witness: a completed three-stage pass with merges, an expand at an even
\* resolution and the stage-0 expand at an odd one.
C7_Witness ==
    /\ pc = "done"
    /\ \E i \in 1..Len(applied) : applied[i].op = "PatchMerging"
    /\ \E i \in 1..Len(applied) : applied[i].op = "PatchExpand" /\ applied[i].stage >= 1
    /\ \E i \in 1..Len(applied) :
           /\ applied[i].op = "PatchExpand" /\ applied[i].stage = 0
           /\ ~EvenRes(applied[i].res)

\* The tensor entering encoder stage k (k counted from 0).
EnteringEnc(k) == IF k = 0 THEN <<"flatten", 0>> ELSE <<"enc_layer", k - 1>>

\* C8: entry k of the skip cache is the tensor entering encoder stage k, recorded
\* before the stage runs (entry 0 is the flattened patch embedding); decoder
\* stage 0 applies PatchExpand to the bottleneck without reading the cache,
\* decoder stage i in 1..N-1 reads exactly entry N-1-i, so every entry 0..N-2 is
\* read exactly once and entry N-1 never.
C8_SkipCacheOrder ==
    /\ \A k \in 1..Len(x_downsample) : x_downsample[k].val = EnteringEnc(k - 1)
    /\ pc = "enc_block" => /\ Len(x_downsample) = idx + 1
                           /\ x_downsample[idx + 1] = x
    /\ pc = "enc_loop" => Len(x_downsample) = idx
    /\ (pc = "dec_loop" /\ idx = 0) =>
           /\ reads = <<>>
           /\ x.val = <<"enc_layer", args.num_stages - 1>>
           /\ self.dec_layers[1].kind = "PatchExpand"
    /\ (pc = "dec_loop" /\ idx = 1) => reads = <<>> /\ x.val = <<"dec_layer", 0>>
    /\ \A j \in 1..Len(reads) : reads[j] = args.num_stages - 1 - j
    /\ pc = "dec_loop" => Len(reads) = IF idx = 0 THEN 0 ELSE idx - 1
    /\ pc \in {"dec_fuse", "dec_layer"} => Len(reads) = idx
    /\ pc \in {"decoded", "done"} =>
           /\ Len(reads) = args.num_stages - 1
           /\ \A k \in 0..(args.num_stages - 2) :
                  Cardinality({j \in 1..Len(reads) : reads[j] = k}) = 1
           /\ \A j \in 1..Len(reads) : reads[j] # args.num_stages - 1

\* C8 witness: a completed three-stage pass that read entry 1, then entry 0.
C8_Witness ==
    /\ pc = "done"
    /\ args.num_stages = 3
    /\ Len(x_downsample) = 3
    /\ reads = <<1, 0>>

\* C9: the result of norm_upsample is discarded: the tensor foraward_decoder
\* returns, which final_4x_upsample receives, is the output of the last decoder
\* stage, not the normalised tensor.
C9_NormResultDiscarded ==
    pc = "decoded" =>
        /\ x.val = <<"dec_layer", args.num_stages - 1>>
        /\ normed.val = <<"norm_upsample", 0>>
        /\ normed.shape = x.shape
        /\ x # normed

\* C9 witness: the decoder returned after norm_upsample was called.
C9_Witness ==
    /\ pc = "decoded"
    /\ normed.val = <<"norm_upsample", 0>>
    /\ x.val[1] = "dec_layer"

\* C10 (as claimed): for every stride setting the token grid VitPatchEmbed.forward
\* emits at the construction resolution has the spatial shape seqlens, and the
\* flattened sequence entering encoder stage 0 has length prod(seqlens).
C10_GridIsSeqlens ==
    /\ pc = "embedded" => SubSeq(x.shape, 2, 3) = self.patch_embed.seqlens
    /\ (pc = "enc_loop" /\ idx = 0) => x.shape[2] = Prod(self.patch_embed.seqlens)

=============================================================================
